---- MODULE Spec2Model ----
(***************************************************************************)
(* Model of package ip17mon (src/ip17mon.go): the process-wide default     *)
(* Locator (std, olddata, newdata, switchMutex) with Init, Reload,         *)
(* InitWithData and Find; the decoder Locator.init; the range search       *)
(* FindByUint / findIndexOffset; and the record parser newLocationInfo.    *)
(***************************************************************************)
EXTENDS Integers, Naturals, Sequences, FiniteSets, TLC

(* ------------------------------ bounds --------------------------------- *)
\* number of goroutines calling the package-level functions
NumProcs == 2
\* number of Locators that can be built in one behaviour
MaxGen == 3

\* number of entries of a database given to the range search
MaxEntries == 4
\* width of the part of an address below its top octet (24 in the code;
\* addresses of the model are 8 + LowBits bits wide)
LowBits == 2

\* width of the integers of strconv.ParseInt and ParseUint (64 in the code)
IntBits == 4
\* largest number of tab-separated fields of a record
MaxFields == 11

Procs == 1..NumProcs

(* ------------------------- decoder: Locator.init ----------------------- *)
\* sizes of the binary layout used by Locator.init
TextOffLen == 4
IndexLen == 1024
EntryLen == 8
PrefixCount == 256

\* Go's integer division truncates toward zero
TruncDiv(a, b) ==
    IF a >= 0 THEN a \div b ELSE -((-a) \div b)

\* nidx := (textoff - 4 - 1024 - 1024) / 8
Nidx(textoff) == TruncDiv(textoff - TextOffLen - IndexLen - IndexLen, EntryLen)

\* A buffer is described by its length and by the big-endian uint32 in its
\* first four bytes (cap(data) = len(data)).  Locator.init panics when a slice
\* expression or make() is out of range; it has no other failure.
InitPanics(data) ==
    \/ data.len < TextOffLen                     \* data[:4]
    \/ data.textoff - IndexLen < 0               \* data[textoff-1024:]
    \/ data.textoff - IndexLen > data.len
    \/ data.len < TextOffLen + PrefixCount * 4   \* data[off : off+4], i < 256
    \/ Nidx(data.textoff) < 0                    \* make([]uint32, nidx)
    \/ data.len < TextOffLen + IndexLen + Nidx(data.textoff) * EntryLen

\* the absent Locator (nil pointer)
Nil == [gen |-> 0, nidx |-> 0]

\* NewLocatorWithData: loc = new(Locator); loc.init(data)
NewLocatorWithData(data, g) ==
    IF InitPanics(data)
    THEN [panic |-> TRUE, loc |-> Nil, err |-> FALSE]
    ELSE [panic |-> FALSE, loc |-> [gen |-> g, nidx |-> Nidx(data.textoff)],
          err |-> FALSE]

\* NewLocator: ioutil.ReadFile, then NewLocatorWithData
NewLocator(file, g) ==
    IF ~file.exists
    THEN [panic |-> FALSE, loc |-> Nil, err |-> TRUE]
    ELSE NewLocatorWithData(file.data, g)

\* buffers handed to the package: a database of two entries, a buffer shorter
\* than the header, a buffer whose textoff underflows the header sizes, and a
\* buffer giving a negative entry count
GoodData == [len |-> 2068, textoff |-> 2068]
ShortData == [len |-> 3, textoff |-> 0]
UnderflowData == [len |-> 2048, textoff |-> 2048]
NegativeData == [len |-> 1500, textoff |-> 1500]
Buffers == {GoodData, ShortData, UnderflowData, NegativeData}
NoData == [len |-> 0, textoff |-> 0]
Files == {[exists |-> TRUE, data |-> d] : d \in Buffers}
             \cup {[exists |-> FALSE, data |-> NoData]}

\* what the claims call a malformed buffer
ShortBuffer(data) == data.len < TextOffLen + IndexLen + IndexLen
TextOffUnderflows(data) == data.textoff - TextOffLen - IndexLen - IndexLen < 0
Malformed(data) == ShortBuffer(data) \/ TextOffUnderflows(data)

(* -------------------- address text: net.ParseIP, To4 ------------------- *)
\* forms of the text given to Find
Texts == {[form |-> "bad", addr |-> 0], [form |-> "v4", addr |-> 1],
          [form |-> "v4in6", addr |-> 1], [form |-> "v6", addr |-> 1]}

NoIP == [len |-> 0, mapped |-> FALSE, low |-> 0]

\* net.ParseIP returns nil or the 16-byte form; dotted-decimal text gives the
\* IPv4-mapped form ::ffff:a.b.c.d
ParseIP(text) ==
    CASE text.form = "bad" -> NoIP
      [] text.form = "v4" -> [len |-> 16, mapped |-> TRUE, low |-> text.addr]
      [] text.form = "v4in6" -> [len |-> 16, mapped |-> TRUE, low |-> text.addr]
      [] OTHER -> [len |-> 16, mapped |-> FALSE, low |-> text.addr]

\* IP.To4 returns the last four bytes of an IPv4-mapped address, else nil
To4(ip) ==
    IF ip.len = 16 /\ ip.mapped
    THEN [len |-> 4, mapped |-> FALSE, low |-> ip.low]
    ELSE NoIP

(* ------------------ range search: tables and addresses ----------------- *)
\* ip >> 24 and the largest top octet
Span == 2 ^ LowBits
TopOctet(a) == a \div Span
LastOctet == 255
MaxAddr == PrefixCount * Span - 1

\* entries and addresses around the boundaries of the first, second and last
\* prefix bucket
Cand == {0, 2, Span - 1, Span, Span + 2, LastOctet * Span + 1, MaxAddr}
Probes == Cand \cup {1, Span + 1, LastOctet * Span, LastOctet * Span + 2}

\* indexData1 of a decoded database: N entries in non-decreasing order
Databases ==
    UNION {{d \in [0..(n - 1) -> Cand] :
               \A i \in 0..(n - 2) : d[i] <= d[i + 1]} : n \in 0..MaxEntries}

Size(d) == Cardinality(DOMAIN d)

\* loc.index as the producer of the database writes it: index[b] is the
\* position of the first entry whose top octet is b or more, and the number
\* of entries when there is none
PrefixIndexOf(d) ==
    [b \in 0..(PrefixCount - 1) |->
        IF \E i \in DOMAIN d : TopOctet(d[i]) >= b
        THEN CHOOSE i \in DOMAIN d :
                 /\ TopOctet(d[i]) >= b
                 /\ \A j \in DOMAIN d : TopOctet(d[j]) >= b => i <= j
        ELSE Size(d)]

\* FindByUint, line 122: end := len(loc.indexData1) - 1
TailEnd(n) == n - 1

\* FindByUint, lines 122-126: the bounds handed to findIndexOffset
SearchBounds(idxTab, d, a) ==
    [start |-> idxTab[TopOctet(a)],
     end |-> IF TopOctet(a) # LastOctet
             THEN idxTab[TopOctet(a) + 1]
             ELSE TailEnd(Size(d))]

\* Narrow with the comparison ip >= loc.indexData1[mid]
Narrow_ge(d, a, s, e) ==
    LET mid == TruncDiv(s + e, 2) IN
    IF a >= d[mid] THEN [start |-> mid + 1, end |-> e]
                   ELSE [start |-> s, end |-> mid]

\* Narrow with end = mid - 1
Narrow_below(d, a, s, e) ==
    LET mid == TruncDiv(s + e, 2) IN
    IF a > d[mid] THEN [start |-> mid + 1, end |-> e]
                  ELSE [start |-> s, end |-> mid - 1]

\* findIndexOffset, lines 134-139: one iteration of the loop
Narrow(d, a, s, e) ==
    LET mid == TruncDiv(s + e, 2) IN
    IF a > d[mid] THEN [start |-> mid + 1, end |-> e]
                  ELSE [start |-> s, end |-> mid]

\* findIndexOffset, lines 142-146: the result after the loop
Settle(d, a, s, e) == IF d[e] >= a THEN e ELSE s

(* ------------------- record parser: newLocationInfo -------------------- *)
\* a byte string is a sequence of one-character strings
Tab == "\t"
Null == <<"N/A">>
Digits == {"0", "1", "9"}
DigitVal(c) == CASE c = "0" -> 0 [] c = "1" -> 1 [] OTHER -> 9

MaxUint == 2 ^ IntBits - 1
MaxInt == 2 ^ (IntBits - 1) - 1
MinInt == -(2 ^ (IntBits - 1))

\* bytes.Split(str, "\t"): the pieces between the separators, one more than
\* the number of separators
RECURSIVE Split(_)
Split(s) ==
    IF \A i \in 1..Len(s) : s[i] # Tab
    THEN <<s>>
    ELSE LET i == CHOOSE k \in 1..Len(s) :
                      s[k] = Tab /\ \A j \in 1..(k - 1) : s[j] # Tab
         IN <<SubSeq(s, 1, i - 1)>> \o Split(SubSeq(s, i + 1, Len(s)))

\* strconv.ParseUint(s, 10, IntBits): the loop over the bytes of s with the
\* running value n; a byte that is no digit is a syntax error with value 0,
\* an overflow is a range error with the largest value
RECURSIVE ParseUintFrom(_, _, _)
ParseUintFrom(s, i, n) ==
    IF i > Len(s) THEN [val |-> n, err |-> "none"]
    ELSE IF s[i] \notin Digits THEN [val |-> 0, err |-> "syntax"]
    ELSE IF n >= MaxUint \div 10 + 1 THEN [val |-> MaxUint, err |-> "range"]
    ELSE LET n1 == (n * 10 + DigitVal(s[i])) % (2 ^ IntBits) IN
         IF n1 < n * 10 \/ n1 > MaxUint
         THEN [val |-> MaxUint, err |-> "range"]
         ELSE ParseUintFrom(s, i + 1, n1)

ParseUint(s) ==
    IF Len(s) = 0 THEN [val |-> 0, err |-> "syntax"]
    ELSE ParseUintFrom(s, 1, 0)

\* strconv.ParseInt(s, 10, IntBits): the sign, then ParseUint, then the
\* check against the signed range
ParseInt(s) ==
    IF Len(s) = 0 THEN [val |-> 0, err |-> "syntax"]
    ELSE LET neg == s[1] = "-"
             body == IF s[1] \in {"+", "-"} THEN Tail(s) ELSE s
             un == ParseUint(body)
             cutoff == 2 ^ (IntBits - 1)
         IN IF un.err = "syntax" THEN [val |-> 0, err |-> "syntax"]
            ELSE IF ~neg /\ un.val >= cutoff THEN [val |-> cutoff - 1, err |-> "range"]
            ELSE IF neg /\ un.val > cutoff THEN [val |-> -cutoff, err |-> "range"]
            ELSE [val |-> IF neg THEN -un.val ELSE un.val, err |-> "none"]

\* IdOf with the error tested and zero stored on any failure
IdOf_zero(r) == IF r.err # "none" THEN 0 ELSE r.val

\* IntCountry_id, _ := strconv.ParseInt(...): the error is dropped and the
\* returned value is used
IdOf(r) == r.val

\* SchemaOf with the trailing empty field not counted
SchemaOf_short(n) ==
    CASE n = 3 -> "free"
      [] n = 4 -> "pay"
      [] n = 9 -> "specific"
      [] OTHER -> "none"

\* the switch on len(fields), lines 180-216
SchemaOf(n) ==
    CASE n = 4 -> "free"
      [] n = 5 -> "pay"
      [] n = 10 -> "specific"
      [] OTHER -> "none"

\* lines 218-229: an empty text field becomes Null
OrNull(f) == IF Len(f) = 0 THEN Null ELSE f

NoInfo == [kind |-> "none", schema |-> "none",
           Country |-> <<>>, Region |-> <<>>, City |-> <<>>, Isp |-> <<>>,
           Country_id |-> 0, Province_id |-> 0, City_id |-> 0, Isp_id |-> 0,
           Location_id |-> 0]

newLocationInfo(str) ==
    LET fields == Split(str)
        schema == SchemaOf(Len(fields))
    IN CASE schema = "free" ->
              [NoInfo EXCEPT !.kind = "ok", !.schema = schema,
                  !.Country = OrNull(fields[1]), !.Region = OrNull(fields[2]),
                  !.City = OrNull(fields[3]), !.Isp = Null]
         [] schema = "pay" ->
              [NoInfo EXCEPT !.kind = "ok", !.schema = schema,
                  !.Country = OrNull(fields[1]), !.Region = OrNull(fields[2]),
                  !.City = OrNull(fields[3]), !.Isp = OrNull(fields[5])]
         [] schema = "specific" ->
              [NoInfo EXCEPT !.kind = "ok", !.schema = schema,
                  !.Country = OrNull(fields[1]), !.Region = OrNull(fields[2]),
                  !.City = OrNull(fields[3]), !.Isp = OrNull(fields[4]),
                  !.Country_id = IdOf(ParseInt(fields[5])),
                  !.Province_id = IdOf(ParseInt(fields[6])),
                  !.City_id = IdOf(ParseInt(fields[7])),
                  !.Isp_id = IdOf(ParseInt(fields[8])),
                  !.Location_id = IdOf(ParseUint(fields[9]))]
         [] OTHER -> \* panic("unexpected ip info:" + string(str))
              [NoInfo EXCEPT !.kind = "panic"]

\* records of the text blob: every field count up to MaxFields with empty and
\* non-empty text fields, and ten-field records over the numeric texts
RECURSIVE Join(_)
Join(fs) ==
    IF Len(fs) = 1 THEN fs[1]
    ELSE fs[1] \o <<Tab>> \o Join(Tail(fs))

TextFields == {<<>>, <<"a">>}
NumTexts == {<<>>, <<"1">>, <<"9", "9">>, <<"x">>, <<"-", "1">>,
             <<"-", "9", "9">>, <<"9", "9", "x">>}
Records ==
    UNION {{Join(fs) : fs \in [1..n -> TextFields]} : n \in 1..MaxFields}
    \cup {Join(<<t, <<>>, <<>>, t, a, b, c, d, e, <<>>>>) :
             t \in TextFields, a \in NumTexts, b \in NumTexts, c \in NumTexts,
             d \in NumTexts, e \in NumTexts}

(* --------------------------- registry state ---------------------------- *)
VARIABLES std, olddata, newdata, switchMutex, pc, arg, snap, ret, nextGen,
          visible, lockView

\* one call of Locator.FindByUint: the tables, the address, the locals of
\* findIndexOffset and the position in the call
VARIABLES index, indexData1, ip, start, end, idx, fpc

searchVars == <<index, indexData1, ip, start, end, idx, fpc>>

\* one call of newLocationInfo: the bytes of the record in the Locator's
\* textData, the result and the position in the call
VARIABLES str, info, ppc

parseVars == <<str, info, ppc>>

otherVars == <<searchVars, parseVars>>

regVars == <<std, olddata, newdata, switchMutex, pc, arg, snap, ret, nextGen,
             visible, lockView>>

NoArg == [file |-> [exists |-> FALSE, data |-> NoData],
          text |-> [form |-> "bad", addr |-> 0], before |-> Nil]
NoSnap == [ref |-> Nil, view |-> "built"]
NoRet == [op |-> "none", kind |-> "none", gen |-> 0, searched |-> FALSE]

RegInit ==
    /\ std = Nil
    /\ olddata = Nil
    /\ newdata = Nil
    /\ switchMutex = 0
    /\ pc = [p \in Procs |-> "idle"]
    /\ arg = [p \in Procs |-> NoArg]
    /\ snap = [p \in Procs |-> NoSnap]
    /\ ret = [p \in Procs |-> NoRet]
    /\ nextGen = 1
    /\ visible = [p \in Procs |-> {}]
    /\ lockView = {}

\* calls that may still allocate a Locator
Building == {p \in Procs : pc[p] \in {"Init_body", "Reload_body", "IWD_store"}}
CanBuild == nextGen + Cardinality(Building) <= MaxGen

\* switchMutex.Lock() at the head of Init
InitLock(p, f) ==
    /\ UNCHANGED otherVars
    /\ pc[p] = "idle"
    /\ switchMutex = 0
    /\ CanBuild
    /\ switchMutex' = p
    /\ pc' = [pc EXCEPT ![p] = "Init_body"]
    /\ arg' = [arg EXCEPT ![p] = [NoArg EXCEPT !.file = f, !.before = std]]
    /\ visible' = [visible EXCEPT ![p] = @ \cup lockView]
    /\ UNCHANGED <<std, olddata, newdata, snap, ret, nextGen, lockView>>

\* body of Init, lines 28-35
InitBody(p) ==
    /\ UNCHANGED otherVars
    /\ pc[p] = "Init_body"
    /\ pc' = [pc EXCEPT ![p] = "Init_unlock"]
    /\ IF std # Nil
       THEN /\ ret' = [ret EXCEPT ![p] = [NoRet EXCEPT !.op = "Init", !.kind = "ok"]]
            /\ UNCHANGED <<std, olddata, newdata, nextGen, visible>>
       ELSE LET r == NewLocator(arg[p].file, nextGen) IN
            IF r.panic
            THEN /\ ret' = [ret EXCEPT ![p] = [NoRet EXCEPT !.op = "Init", !.kind = "panic"]]
                 /\ UNCHANGED <<std, olddata, newdata, nextGen, visible>>
            ELSE /\ std' = r.loc
                 /\ IF ~r.err
                    THEN /\ olddata' = r.loc
                         /\ newdata' = r.loc
                         /\ nextGen' = nextGen + 1
                         /\ visible' = [visible EXCEPT ![p] = @ \cup {r.loc.gen}]
                    ELSE UNCHANGED <<olddata, newdata, nextGen, visible>>
                 /\ ret' = [ret EXCEPT ![p] = [NoRet EXCEPT !.op = "Init",
                                 !.kind = IF r.err THEN "err" ELSE "ok",
                                 !.gen = r.loc.gen]]
    /\ arg' = [arg EXCEPT ![p] = [NoArg EXCEPT !.before = arg[p].before]]
    /\ UNCHANGED <<switchMutex, snap, lockView>>

\* switchMutex.Lock() at the head of Reload
ReloadLock(p, f) ==
    /\ UNCHANGED otherVars
    /\ pc[p] = "idle"
    /\ switchMutex = 0
    /\ CanBuild
    /\ switchMutex' = p
    /\ pc' = [pc EXCEPT ![p] = "Reload_body"]
    /\ arg' = [arg EXCEPT ![p] = [NoArg EXCEPT !.file = f, !.before = std]]
    /\ visible' = [visible EXCEPT ![p] = @ \cup lockView]
    /\ UNCHANGED <<std, olddata, newdata, snap, ret, nextGen, lockView>>

\* body of Reload, lines 43-46
ReloadBody(p) ==
    /\ UNCHANGED otherVars
    /\ pc[p] = "Reload_body"
    /\ pc' = [pc EXCEPT ![p] = "Reload_unlock"]
    /\ LET r == NewLocator(arg[p].file, nextGen) IN
       IF r.panic
       THEN /\ ret' = [ret EXCEPT ![p] = [NoRet EXCEPT !.op = "Reload", !.kind = "panic"]]
            /\ UNCHANGED <<std, olddata, newdata, nextGen, visible>>
       ELSE \* olddata, err = NewLocator(dataFile)
            \* olddata, newdata = newdata, olddata
            \* std = newdata
            /\ olddata' = newdata
            /\ newdata' = r.loc
            /\ std' = r.loc
            /\ IF ~r.err
               THEN /\ nextGen' = nextGen + 1
                    /\ visible' = [visible EXCEPT ![p] = @ \cup {r.loc.gen}]
               ELSE UNCHANGED <<nextGen, visible>>
            /\ ret' = [ret EXCEPT ![p] = [NoRet EXCEPT !.op = "Reload",
                            !.kind = IF r.err THEN "err" ELSE "ok",
                            !.gen = r.loc.gen]]
    /\ arg' = [arg EXCEPT ![p] = [NoArg EXCEPT !.before = arg[p].before]]
    /\ UNCHANGED <<switchMutex, snap, lockView>>

\* the deferred switchMutex.Unlock() of Init and Reload, and their return
Unlock(p) ==
    /\ UNCHANGED otherVars
    /\ pc[p] \in {"Init_unlock", "Reload_unlock"}
    /\ switchMutex = p
    /\ switchMutex' = 0
    /\ lockView' = lockView \cup visible[p]
    /\ pc' = [pc EXCEPT ![p] = "idle"]
    /\ arg' = [arg EXCEPT ![p] = NoArg]
    /\ ret' = [ret EXCEPT ![p] = NoRet]
    /\ UNCHANGED <<std, olddata, newdata, snap, nextGen, visible>>

\* InitWithData, line 51: the test of std, without the lock
InitWithDataCheck(p, d) ==
    /\ UNCHANGED otherVars
    /\ pc[p] = "idle"
    /\ CanBuild
    /\ IF std # Nil
       THEN /\ pc' = [pc EXCEPT ![p] = "IWD_ret"]
            /\ ret' = [ret EXCEPT ![p] = [NoRet EXCEPT !.op = "InitWithData", !.kind = "ok"]]
            /\ UNCHANGED arg
       ELSE /\ pc' = [pc EXCEPT ![p] = "IWD_store"]
            /\ arg' = [arg EXCEPT ![p] = [NoArg EXCEPT !.file = [exists |-> TRUE, data |-> d]]]
            /\ UNCHANGED ret
    /\ UNCHANGED <<std, olddata, newdata, switchMutex, snap, nextGen, visible, lockView>>

\* InitWithData, line 54: std = NewLocatorWithData(data), without the lock
InitWithDataStore(p) ==
    /\ UNCHANGED otherVars
    /\ pc[p] = "IWD_store"
    /\ pc' = [pc EXCEPT ![p] = "IWD_ret"]
    /\ arg' = [arg EXCEPT ![p] = NoArg]
    /\ LET r == NewLocatorWithData(arg[p].file.data, nextGen) IN
       IF r.panic
       THEN /\ ret' = [ret EXCEPT ![p] = [NoRet EXCEPT !.op = "InitWithData", !.kind = "panic"]]
            /\ UNCHANGED <<std, nextGen, visible>>
       ELSE /\ std' = r.loc
            /\ nextGen' = nextGen + 1
            /\ visible' = [visible EXCEPT ![p] = @ \cup {r.loc.gen}]
            /\ ret' = [ret EXCEPT ![p] = [NoRet EXCEPT !.op = "InitWithData",
                            !.kind = "ok", !.gen = r.loc.gen]]
    /\ UNCHANGED <<olddata, newdata, switchMutex, snap, lockView>>

\* Find, line 61: the read of std, without the lock.  The read races with the
\* writes of std: a goroutine that has not synchronised with the writer since
\* the Locator was built may observe the pointer before the Locator's fields.
FindRead(p, t) ==
    /\ UNCHANGED otherVars
    /\ pc[p] = "idle"
    /\ pc' = [pc EXCEPT ![p] = "Find_call"]
    /\ arg' = [arg EXCEPT ![p] = [NoArg EXCEPT !.text = t]]
    /\ \E v \in {"built", "partial"} :
          /\ v = "partial" => (std # Nil /\ std.gen \notin visible[p])
          /\ snap' = [snap EXCEPT ![p] = [ref |-> std, view |-> v]]
    /\ UNCHANGED <<std, olddata, newdata, switchMutex, ret, nextGen, visible, lockView>>

\* Locator.Find on the Locator read by Find, lines 110-118, and FindByUint
LocatorFind(loc, view, text) ==
    LET parsed == ParseIP(text) IN
    IF parsed = NoIP
    THEN [NoRet EXCEPT !.op = "Find", !.kind = "err"]
    ELSE IF To4(parsed) = NoIP
    THEN \* binary.BigEndian.Uint32 of an empty slice
         [NoRet EXCEPT !.op = "Find", !.kind = "panic"]
    ELSE IF loc = Nil \/ view = "partial" \/ loc.nidx = 0
    THEN \* nil dereference, or an index out of the range of an empty table
         [NoRet EXCEPT !.op = "Find", !.kind = "panic", !.searched = TRUE]
    ELSE [NoRet EXCEPT !.op = "Find", !.kind = "ok", !.gen = loc.gen,
                       !.searched = TRUE]

FindCall(p) ==
    /\ UNCHANGED otherVars
    /\ pc[p] = "Find_call"
    /\ pc' = [pc EXCEPT ![p] = "Find_ret"]
    /\ ret' = [ret EXCEPT ![p] = LocatorFind(snap[p].ref, snap[p].view, arg[p].text)]
    /\ arg' = [arg EXCEPT ![p] = NoArg]
    /\ snap' = [snap EXCEPT ![p] = NoSnap]
    /\ UNCHANGED <<std, olddata, newdata, switchMutex, nextGen, visible, lockView>>

\* return of InitWithData and of Find to the caller
Return(p) ==
    /\ UNCHANGED otherVars
    /\ pc[p] \in {"IWD_ret", "Find_ret"}
    /\ pc' = [pc EXCEPT ![p] = "idle"]
    /\ ret' = [ret EXCEPT ![p] = NoRet]
    /\ UNCHANGED <<std, olddata, newdata, switchMutex, arg, snap, nextGen, visible, lockView>>

(* ------------------------- range search actions ----------------------- *)
SearchIdle ==
    /\ indexData1 = <<>>
    /\ index = PrefixIndexOf(<<>>)
    /\ ip = 0
    /\ start = 0
    /\ end = 0
    /\ idx = 0
    /\ fpc = "off"

SearchInit ==
    /\ indexData1 \in Databases
    /\ index = PrefixIndexOf(indexData1)
    /\ ip \in Probes
    /\ start = 0
    /\ end = 0
    /\ idx = 0
    /\ fpc = "call"

\* FindByUint, lines 122-126, up to the call of findIndexOffset
FindByUintBounds ==
    /\ fpc = "call"
    /\ start' = SearchBounds(index, indexData1, ip).start
    /\ end' = SearchBounds(index, indexData1, ip).end
    /\ fpc' = "loop"
    /\ UNCHANGED <<index, indexData1, ip, idx, regVars, parseVars>>

\* findIndexOffset, lines 133-140: one iteration; reading indexData1 outside
\* its range panics
SearchLoop ==
    /\ fpc = "loop"
    /\ start < end
    /\ IF TruncDiv(start + end, 2) \in DOMAIN indexData1
       THEN /\ start' = Narrow(indexData1, ip, start, end).start
            /\ end' = Narrow(indexData1, ip, start, end).end
            /\ fpc' = "loop"
       ELSE /\ fpc' = "panic"
            /\ UNCHANGED <<start, end>>
    /\ UNCHANGED <<index, indexData1, ip, idx, regVars, parseVars>>

\* findIndexOffset, lines 142-146
SearchSettle ==
    /\ fpc = "loop"
    /\ ~(start < end)
    /\ IF end \in DOMAIN indexData1
       THEN /\ idx' = Settle(indexData1, ip, start, end)
            /\ fpc' = "found"
       ELSE /\ fpc' = "panic"
            /\ UNCHANGED idx
    /\ UNCHANGED <<index, indexData1, ip, start, end, regVars, parseVars>>

\* FindByUint, line 127: off := loc.indexData2[idx]
FindByUintRecord ==
    /\ fpc = "found"
    /\ fpc' = IF idx \in DOMAIN indexData1 THEN "done" ELSE "panic"
    /\ UNCHANGED <<index, indexData1, ip, start, end, idx, regVars, parseVars>>

(* ------------------------- record parser actions ---------------------- *)
ParseIdle ==
    /\ str = <<>>
    /\ info = NoInfo
    /\ ppc = "off"

ParseInit ==
    /\ str \in Records
    /\ info = NoInfo
    /\ ppc = "call"

\* FindByUint, line 128: newLocationInfo on the record of the Locator
ParseRecord ==
    /\ ppc = "call"
    /\ info' = newLocationInfo(str)
    /\ ppc' = IF newLocationInfo(str).kind = "panic" THEN "panic" ELSE "done"
    /\ UNCHANGED <<str, regVars, searchVars>>

\* the next lookup of the same record, after the caller got the record or
\* recovered from the panic
ParseAgain ==
    /\ ppc \in {"done", "panic"}
    /\ ppc' = "call"
    /\ UNCHANGED <<str, info, regVars, searchVars>>

vars == <<regVars, searchVars, parseVars>>

Init == RegInit /\ SearchIdle /\ ParseIdle

Next ==
    \/ \E p \in Procs, f \in Files : InitLock(p, f)
    \/ \E p \in Procs : InitBody(p)
    \/ \E p \in Procs, f \in Files : ReloadLock(p, f)
    \/ \E p \in Procs : ReloadBody(p)
    \/ \E p \in Procs : Unlock(p)
    \/ \E p \in Procs, d \in Buffers : InitWithDataCheck(p, d)
    \/ \E p \in Procs : InitWithDataStore(p)
    \/ \E p \in Procs, t \in Texts : FindRead(p, t)
    \/ \E p \in Procs : FindCall(p)
    \/ \E p \in Procs : Return(p)

Spec == Init /\ [][Next]_vars

\* the range search on its own: every database and every probed address
InitSearch == RegInit /\ SearchInit /\ ParseIdle

NextSearch ==
    \/ FindByUintBounds
    \/ SearchLoop
    \/ SearchSettle
    \/ FindByUintRecord

SpecSearch == InitSearch /\ [][NextSearch]_vars

\* the record parser on its own: every record of Records
InitParse == RegInit /\ SearchIdle /\ ParseInit

NextParse ==
    \/ ParseRecord
    \/ ParseAgain

SpecParse == InitParse /\ [][NextParse]_vars

(* ----------------------- properties of the registry -------------------- *)
\* steps of the registry, recognised by the caller's position
ReloadStep(p) == pc[p] = "Reload_body" /\ pc'[p] = "Reload_unlock"
InitStep(p) == pc[p] = "Init_body" /\ pc'[p] = "Init_unlock"
StoreStep(p) == pc[p] = "IWD_store" /\ pc'[p] = "IWD_ret"
ReadStep(p) == pc[p] = "idle" /\ pc'[p] = "Find_call"
CallStep(p) == pc[p] = "Find_call" /\ pc'[p] = "Find_ret"
Failed(r) == r.kind \in {"err", "panic"}
\* a Locator built from a database with entries
Usable(l) == l # Nil /\ l.nidx > 0

\* C1: a Reload whose build of the new Locator fails reports the failure and
\* leaves std exactly the Locator that was active before the call.
C1_FailedReloadKeepsActive ==
    [][\A p \in Procs :
          (ReloadStep(p) /\ Usable(arg[p].before) /\ Usable(std) /\ Failed(ret'[p]))
              => (std' = std)]_vars

\* C2: a successful Reload makes the new Locator the active one and keeps
\* the Locator that was active before it in the retained slot olddata; the
\* retained Locator stays there until the next successful Reload; the registry
\* references the current generation and at most one previous generation.
C2_ReloadRetainsPrevious ==
    /\ [][\A p \in Procs :
             /\ (ReloadStep(p) /\ ret'[p].kind = "ok")
                    => /\ std'.gen = ret'[p].gen
                       /\ (Usable(arg[p].before) /\ Usable(std) /\ Usable(std'))
                             => olddata' = std
             /\ (~(ReloadStep(p) /\ ret'[p].kind = "ok")
                      /\ olddata # Nil /\ olddata # std)
                    => (\E q \in Procs : ReloadStep(q) /\ ret'[q].kind = "ok")
                          \/ olddata' = olddata]_vars
    /\ [](Cardinality({std, olddata, newdata} \ {Nil}) <= 2)

\* C3: an initialize call (Init or InitWithData) never replaces an installed
\* Locator, and every write of std is made by the holder of switchMutex.
C3_InitOnlyWhenEmptyUnderLock ==
    [][/\ \A p \in Procs :
             ((InitStep(p) \/ StoreStep(p)) /\ std # Nil) => std' = std
       /\ std' # std =>
             /\ switchMutex # 0
             /\ InitStep(switchMutex) \/ ReloadStep(switchMutex)]_vars

\* C4: a Find that reads std while a Reload is in progress reads the Locator
\* that was active before the Reload or the new one, never nil, and its
\* answer is the answer of the generation it read.  (That the Locator read is
\* also seen fully built is the view recorded in snap.)
C4_LookupSeesBuiltLocator ==
    [][\A p \in Procs :
          /\ \A q \in Procs :
                (ReadStep(p) /\ pc[q] \in {"Reload_body", "Reload_unlock"}
                             /\ Usable(arg[q].before))
                   => /\ snap'[p].ref # Nil
                      /\ snap'[p].ref.gen \in {arg[q].before.gen, ret[q].gen}
          /\ (CallStep(p) /\ ret'[p].kind = "ok")
                   => ret'[p].gen = snap[p].ref.gen]_vars

\* C8: building from a buffer shorter than the header, or whose textoff
\* underflows the header sizes, or that gives a negative entry count, fails
\* (by an error or a panic reaching the caller) and installs no Locator.
C8_MalformedBufferRejected ==
    [][\A p \in Procs :
          (/\ (InitStep(p) /\ std = Nil) \/ StoreStep(p)
           /\ arg[p].file.exists
           /\ Malformed(arg[p].file.data))
              => (Failed(ret'[p]) /\ std' = std)]_vars

\* C9: text that does not parse as an IP address gives the invalid-address
\* error without reaching the range search, also when std is nil; text that
\* parses reaches the range search with a 32-bit IPv4 value.
C9_AddressTextHandling ==
    [][\A p \in Procs :
          CallStep(p) =>
              /\ ParseIP(arg[p].text) = NoIP
                     => (ret'[p].kind = "err" /\ ~ret'[p].searched)
              /\ ParseIP(arg[p].text) # NoIP => ret'[p].searched]_vars
(* --------------------- properties of the range search ------------------ *)
Searched == fpc \in {"found", "done"}
LastEntry == indexData1[Size(indexData1) - 1]

\* C5 (as claimed): the search returns the greatest index i with
\* indexData1[i] <= ip, the entries being the first addresses of the ranges.
C5_GreatestStartAtMost ==
    (/\ Searched
     /\ Size(indexData1) >= 1
     /\ LastEntry = MaxAddr
     /\ \A i \in DOMAIN indexData1 :
           i + 1 \in DOMAIN indexData1 => indexData1[i] < indexData1[i + 1]) =>
        \A i \in DOMAIN indexData1 :
            (/\ indexData1[i] <= ip
             /\ i = Size(indexData1) - 1 \/ ip < indexData1[i + 1])
                => idx = i

\* C5 (amended): the entries are the last addresses of the ranges.  For every
\* address ip that some entry reaches, the search returns the least index i
\* with indexData1[i] >= ip, that is indexData1[i-1] < ip <= indexData1[i].
C5_LeastEndAtLeast ==
    (Size(indexData1) >= 1 /\ \E i \in DOMAIN indexData1 : indexData1[i] >= ip)
        => /\ fpc # "panic"
           /\ Searched =>
                 /\ idx \in DOMAIN indexData1
                 /\ indexData1[idx] >= ip
                 /\ \A j \in DOMAIN indexData1 : j < idx => indexData1[j] < ip

C5_Witness ==
    /\ fpc = "done"
    /\ Size(indexData1) >= 3
    /\ SearchBounds(index, indexData1, ip).end
           - SearchBounds(index, indexData1, ip).start >= 2
    /\ idx >= 1
    /\ idx < Size(indexData1) - 1
    /\ indexData1[idx - 1] < ip
    /\ ip < indexData1[idx]

\* the search stays inside the table and gives a valid index
InBounds ==
    /\ fpc # "panic"
    /\ Searched => idx \in 0..(Size(indexData1) - 1)
\* every iteration of the loop shrinks the interval, so the loop terminates
Shrinks ==
    (fpc = "loop" /\ fpc' = "loop")
        => (end' - start' >= 0 /\ end' - start' < end - start)

TabCount(s) == Cardinality({i \in 1..Len(s) : s[i] = Tab})
FieldCount == TabCount(str) + 1
Parsed == ppc \in {"done", "panic"}

\* the k-th field of the record, read off the positions of the tabs
FieldAt(s, k) ==
    LET from == IF k = 1 THEN 1
                ELSE 1 + CHOOSE i \in 1..Len(s) :
                         s[i] = Tab /\ TabCount(SubSeq(s, 1, i)) = k - 1
        upto == IF k = TabCount(s) + 1 THEN Len(s)
                ELSE (CHOOSE i \in 1..Len(s) :
                         s[i] = Tab /\ TabCount(SubSeq(s, 1, i)) = k) - 1
    IN SubSeq(s, from, upto)

SchemaHolds ==
    /\ FieldCount = 4 => (info.kind = "ok" /\ info.schema = "free"
                          /\ info.Isp = Null /\ info.Location_id = 0)
    /\ FieldCount = 5 => (info.kind = "ok" /\ info.schema = "pay"
                          /\ info.Isp = OrNull(FieldAt(str, 5)))
    /\ FieldCount = 10 => (info.kind = "ok" /\ info.schema = "specific"
                           /\ info.Isp = OrNull(FieldAt(str, 4)))

\* C7 (as claimed): 4, 5 or 10 fields give a record of the free, pay or
\* specific schema; any other count makes the lookup fail with an error
\* returned to the caller; the Locator's record is unchanged.
C7_OtherCountReturnsError ==
    /\ [](Parsed => /\ SchemaHolds
                    /\ FieldCount \notin {4, 5, 10} => info.kind = "err")
    /\ [][str' = str]_vars

\* C7 (amended): any other count makes the lookup panic; no error value is
\* returned.  The Locator's record is unchanged, so a caller that recovers
\* gets the same answer from a later lookup.
C7_OtherCountPanics ==
    /\ [](Parsed => /\ SchemaHolds
                    /\ FieldCount \notin {4, 5, 10}
                          => (info.kind = "panic" /\ ppc = "panic"))
    /\ [][str' = str]_vars

C7_Witness ==
    /\ ppc = "panic"
    /\ FieldCount = 9
    /\ info.kind = "panic"

\* the value of a string of digits
RECURSIVE Value(_)
Value(s) ==
    IF Len(s) = 0 THEN 0
    ELSE 10 * Value(SubSeq(s, 1, Len(s) - 1)) + DigitVal(s[Len(s)])

Unsigned(s) == IF Len(s) > 0 /\ s[1] \in {"+", "-"} THEN Tail(s) ELSE s
AllDigits(s) == Len(s) > 0 /\ \A i \in 1..Len(s) : s[i] \in Digits
\* the digits read before the first byte that is no digit
DigitPrefix(s) ==
    IF \A i \in 1..Len(s) : s[i] \in Digits THEN s
    ELSE SubSeq(s, 1, (CHOOSE k \in 1..Len(s) :
                          s[k] \notin Digits
                          /\ \A j \in 1..(k - 1) : s[j] \in Digits) - 1)
Overflows(s) == Value(DigitPrefix(s)) > MaxUint

\* parsing the field fails: it is no decimal numeral or it is out of range
FailsInt(s) ==
    \/ ~AllDigits(Unsigned(s))
    \/ IF Len(s) > 0 /\ s[1] = "-" THEN -Value(Unsigned(s)) < MinInt
                                   ELSE Value(Unsigned(s)) > MaxInt
FailsUint(s) == ~AllDigits(s) \/ Value(s) > MaxUint

\* the identifier the code stores for a signed and for an unsigned field
ExpectedInt(s) ==
    LET body == Unsigned(s)
        neg == Len(s) > 0 /\ s[1] = "-"
    IN IF Len(body) = 0 THEN 0
       ELSE IF Overflows(body) THEN (IF neg THEN MinInt ELSE MaxInt)
       ELSE IF ~AllDigits(body) THEN 0
       ELSE IF neg THEN (IF -Value(body) < MinInt THEN MinInt ELSE -Value(body))
       ELSE (IF Value(body) > MaxInt THEN MaxInt ELSE Value(body))
ExpectedUint(s) ==
    IF Len(s) = 0 THEN 0
    ELSE IF Overflows(s) THEN MaxUint
    ELSE IF ~AllDigits(s) THEN 0
    ELSE Value(s)

\* C10 (as claimed): in a ten-field record every numeric field that fails
\* integer parsing, by its syntax or by its range, gives the identifier zero.
C10_FailedFieldIsZero ==
    (ppc = "done" /\ FieldCount = 10) =>
        /\ FailsInt(FieldAt(str, 5)) => info.Country_id = 0
        /\ FailsInt(FieldAt(str, 6)) => info.Province_id = 0
        /\ FailsInt(FieldAt(str, 7)) => info.City_id = 0
        /\ FailsInt(FieldAt(str, 8)) => info.Isp_id = 0
        /\ FailsUint(FieldAt(str, 9)) => info.Location_id = 0

\* C10 (amended): a field that is empty or meets a byte that is no digit
\* before its digits overflow gives zero; a field whose digits are out of
\* range gives the nearest bound of the range (the largest or smallest signed
\* value, the largest unsigned value for Location_id).
C10_FailedFieldZeroOrSaturated ==
    (ppc = "done" /\ FieldCount = 10) =>
        /\ info.Country_id = ExpectedInt(FieldAt(str, 5))
        /\ info.Province_id = ExpectedInt(FieldAt(str, 6))
        /\ info.City_id = ExpectedInt(FieldAt(str, 7))
        /\ info.Isp_id = ExpectedInt(FieldAt(str, 8))
        /\ info.Location_id = ExpectedUint(FieldAt(str, 9))

C10_Witness ==
    /\ ppc = "done"
    /\ FieldCount = 10
    /\ FieldAt(str, 5) = <<"9", "9">>
    /\ info.Country_id = MaxInt
    /\ FieldAt(str, 6) = <<"x">>
    /\ info.Province_id = 0
    /\ FieldAt(str, 7) = <<"-", "9", "9">>
    /\ info.City_id = MinInt
    /\ FieldAt(str, 9) = <<"9", "9">>
    /\ info.Location_id = MaxUint
====
